---- MODULE Spec2Model ----
(***************************************************************************)
(* The OneNote synchronisation pass, run_pipeline                         *)
(* (src/app/services/pipeline_service.py), with the two stores it writes  *)
(* (src/app/storage/db_handler.py) and the content pipeline's output      *)
(* (src/app/services/content_processor.py), as a state machine.           *)
(* One action per store call or external call of run_pipeline, so that    *)
(* an exception or a stop of the process between two calls is a state.    *)
(***************************************************************************)
EXTENDS Bags, FiniteSets, Integers, Sequences, TLC

\* ------------------------------------------------------------ bounds
NPages == 2

Pages == 1..NPages

\* A table has at most MaxRows rows of at most MaxCols cells
MaxRows == 2
MaxCols == 3

\* A page given to process_page has at most MaxElems elements
MaxElems == 3
\* The instants a page can have been modified at: the code only compares them,
\* and two instants give the three outcomes earlier, equal and later.
Timestamps == {1, 2}
NoTime == 0

\* ------------------------------------------------------------ state
VARIABLES
    remote,           \* the document source: page id -> last-modified time, NoTime = no such page
    meta,             \* table onenote_pages_metadata: page_id -> row
    vec,              \* the Milvus collection: a bag of chunk rows (chunk_id is auto-generated)
    sync_log,         \* the sync-event log, in append order
    pc,               \* position of run_pipeline
    pg_handler,       \* run_pipeline's PostgresHandler: "None", "open", "closed"
    milvus_handler,   \* run_pipeline's MilvusHandler: "None", "open", "closed"
    all_pages,        \* local all_pages
    idx,              \* position of the `for page in all_pages` loop
    db_modified_time, \* local db_modified_time (NoTime = None)
    chunks,           \* local chunks
    process_stats,    \* local process_stats
    deleted_page_ids, \* the part of deleted_page_ids the sweep has not visited yet
    cur_deleted,      \* the sweep's loop variable page_id
    result,           \* what the last run_pipeline call gave its caller
    runs,             \* number of run_pipeline calls started
    meta0,            \* history: meta when the current run started
    vec0,             \* history: vec when the current run started
    log0,             \* history: length of sync_log when the current run started
    outputs,          \* history: page id -> what process_page returned for it in this run
    prev_pages,       \* history: all_pages of the previous run if it returned a report
    auth,             \* table onenote_authorizations: the row of MS_USER_EMAIL, or NoAuth
    auth0,            \* history: auth when the current run started
    token_pg,         \* get_access_token's own PostgresHandler: "None", "open", "closed"
    tpc,              \* position of get_access_token
    attempt,          \* get_access_token's loop variable attempt
    response,         \* the answer to the last token request (NoResponse = none came)
    access_token,     \* run_pipeline's local access_token
    table_tag,        \* _table_to_markdown: the table it is called with
    markdown_table,   \* _table_to_markdown: what it returned
    tbl_pc,           \* position of the _table_to_markdown call
    page_data,        \* process_page: the page dictionary it is called with
    soup,             \* process_page: the parsed page, a sequence of elements
    cp_pc,            \* position of process_page
    text_chunks,      \* process_page: local text_chunks
    chunk_embeddings, \* _embed_chunks: local embeddings
    milvus_chunks,    \* process_page: what it returned
    calls,            \* history: the kinds of inference and network calls made
    failed,           \* history: the tables, images and chunks whose inference or download failed
    interrupted,      \* history: the page and the step at which the previous run stopped
    http_response,    \* trigger_pipeline: what the endpoint answered (NoHttpResponse = nothing yet)
    other,            \* the locals of the other request's thread while this one runs
    switches,         \* number of thread switches so far
    s3_objects,       \* the image bucket: the keys of the objects it holds
    uploads,          \* history: the keys upload_fileobj was called with, in order
    downloaded        \* history: the images of the page whose bytes were downloaded

vars == <<remote, meta, vec, sync_log, pc, pg_handler, milvus_handler, all_pages, idx,
          db_modified_time, chunks, process_stats, deleted_page_ids, cur_deleted,
          result, runs, meta0, vec0, log0, outputs, prev_pages,
          auth, auth0, token_pg, tpc, attempt, response, access_token,
          table_tag, markdown_table, tbl_pc, page_data, soup, cp_pc, text_chunks,
          chunk_embeddings, milvus_chunks, calls, failed,
          interrupted, http_response, other, switches, s3_objects, uploads, downloaded>>

storeVars == <<meta, vec, sync_log>>
histVars == <<meta0, vec0, log0, prev_pages, interrupted>>
threadVars == <<other, switches>>
localVars == <<all_pages, idx, db_modified_time, chunks, process_stats,
               deleted_page_ids, cur_deleted>>
tokenVars == <<auth, auth0, token_pg, tpc, attempt, response, access_token>>
tableVars == <<table_tag, markdown_table, tbl_pc>>
imageVars == <<s3_objects, uploads, downloaded>>
cpVars == <<page_data, soup, cp_pc, text_chunks, chunk_embeddings, milvus_chunks, calls,
            failed, imageVars>>
vars_run == <<remote, meta, vec, sync_log, pc, pg_handler, milvus_handler, all_pages, idx,
              db_modified_time, chunks, process_stats, deleted_page_ids, cur_deleted,
              result, runs, meta0, vec0, log0, outputs, prev_pages,
              tableVars, cpVars, interrupted, http_response, threadVars>>

NoMessage == "None"
EmptyFetchMessage == "No pages found or fetching failed."

\* ------------------------------------------------------------ the document source
Title(p) == <<"title", p>>
SectionName(p) == <<"section", (p % 2)>>

\* Number of text chunks the clean text of version v of page p splits into:
\* version 1 of page 2 is a page without content, every other version of a
\* page is one chunk of text.
BlockCount(p, v) == IF p = 2 /\ v = 1 THEN 0 ELSE 1

\* html_content of version v of page p, as the sequence of its text blocks;
\* <<>> is the empty string.
HtmlContent(p, v) == [k \in 1..BlockCount(p, v) |-> <<p, v, k>>]

\* lastModifiedDateTime as Graph sends it: an instant with the suffix "Z".
GraphTime(t) == <<t, "Z">>

\* A page dictionary as the fetchers build it.
PageDict(p, v) ==
    [id |-> p, title |-> Title(p), lastModifiedDateTime |-> GraphTime(v),
     sectionDisplayName |-> SectionName(p), html_content |-> HtmlContent(p, v)]

RemoteIds == {p \in DOMAIN remote : remote[p] # NoTime}

RECURSIVE SortedSeq(_)
SortedSeq(S) ==
    IF S = {} THEN <<>>
    ELSE LET m == CHOOSE x \in S : \A y \in S : x <= y
         IN <<m>> \o SortedSeq(S \ {m})

\* The page list a fetch yields when the requests for the pages in `lost` fail.
FetchResult(lost) ==
    LET ids == SortedSeq(RemoteIds \ lost)
    IN [k \in 1..Len(ids) |-> PageDict(ids[k], remote[ids[k]])]

\* ------------------------------------------------------------ time conversions
\* onenote_modified_time_str.replace('Z', '+00:00')
ReplaceZ(s) == IF s[2] = "Z" THEN <<s[1], "+00:00">> ELSE s

\* datetime.fromisoformat: the instant of an ISO string with a UTC offset
FromIsoFormat(s) == s[1]

\* datetime.isoformat of an aware UTC datetime
IsoFormat(t) == <<t, "+00:00">>

\* the TIMESTAMP WITH TIME ZONE value Postgres stores for an ISO string
TimestampTz(s) == s[1]

OnenoteModifiedTime(page) == FromIsoFormat(ReplaceZ(page.lastModifiedDateTime))

\* ------------------------------------------------------------ PostgresHandler
GetPageLastModified(page_id) ==
    IF page_id \in DOMAIN meta THEN meta[page_id].last_modified_time ELSE NoTime

\* Mutant: ON CONFLICT DO NOTHING, an existing row keeps its old timestamp
UpsertKeepsOldRow(page_id, last_modified_time, title, section_name) ==
    IF page_id \in DOMAIN meta THEN meta
    ELSE [q \in DOMAIN meta \cup {page_id} |->
            IF q = page_id
            THEN [last_modified_time |-> TimestampTz(last_modified_time),
                  title |-> title, section_name |-> section_name]
            ELSE meta[q]]

UpsertPageMetadata(page_id, last_modified_time, title, section_name) ==
    [q \in DOMAIN meta \cup {page_id} |->
        IF q = page_id
        THEN [last_modified_time |-> TimestampTz(last_modified_time),
              title |-> title, section_name |-> section_name]
        ELSE meta[q]]

GetAllPageIds == DOMAIN meta

DeletePageMetadataKeepsRow(page_id) == meta

DeletePageMetadata(page_id) == [q \in DOMAIN meta \ {page_id} |-> meta[q]]

InsertSyncLog(page_id, action) == Append(sync_log, <<page_id, action>>)

\* --- onenote_authorizations (db_handler.py) and the identity provider
\* The table holds at most one row for MS_USER_EMAIL; NoAuth is fetchone() finding none
NoAuth == {}
NoToken == "None"
NoStatus == 0
max_retries == 3

\* lines 96-107
GetAuthByEmail == auth

\* lines 109-124: UPDATE ... WHERE email = %s
UpdateAuthTokens(new_access_token, new_refresh_token, token_expires_at) ==
    {[access_token |-> new_access_token, refresh_token |-> new_refresh_token,
      token_expires_at |-> token_expires_at] : row \in auth}

\* No expires_in in the token data
NoExpiry == 0

\* line 74: datetime.utcnow() + timedelta(seconds=int(expires_in))
ExpiresAt(expires_in) == <<"utcnow", "+", expires_in>>

\* A request that got no answer (a RequestException with e.response None)
NoResponse == [status_code |-> NoStatus, access_token |-> NoToken, refresh_token |-> NoToken,
               expires_in |-> NoExpiry]

\* What a token request can come back with
NewTokens == [status_code |-> 200, access_token |-> "access1", refresh_token |-> "refresh1",
              expires_in |-> 3600]

TokenResponses ==
    {NewTokens,
     [NoResponse EXCEPT !.status_code = 200],
     [NoResponse EXCEPT !.status_code = 400],
     [NoResponse EXCEPT !.status_code = 500],
     NoResponse}

\* requests.post raises without an answer, response.raise_for_status() on 4xx and 5xx
RaiseForStatus(r) == r = NoResponse \/ r.status_code >= 400

\* line 68
CompleteTokenData(r) ==
    r.access_token # NoToken /\ r.refresh_token # NoToken /\ r.expires_in # NoExpiry

\* `if e.response`: a requests Response is true exactly when its status is below 400
Truth(r) == r # NoResponse /\ r.status_code < 400

\* line 85
StatusCode(r) == IF Truth(r) THEN r.status_code ELSE NoStatus

\* The rows the authorizations table can hold for the principal
ValidAuth == {[access_token |-> "access0", refresh_token |-> "refresh0",
               token_expires_at |-> ExpiresAt(NoExpiry)]}

AuthRows ==
    {NoAuth,
     {[access_token |-> "access0", refresh_token |-> NoToken,
       token_expires_at |-> ExpiresAt(NoExpiry)]},
     ValidAuth}

\* ------------------------------------------------------------ MilvusHandler
\* Mutant: the delete expression matches no row
DeleteVectorsMatchesNothing(page_id) == vec

DeleteVectorsByPageId(page_id) ==
    LET keep == {c \in DOMAIN vec : c.page_id # page_id}
    IN [c \in keep |-> vec[c]]

RECURSIVE BagOfSeq(_)
BagOfSeq(s) == IF s = <<>> THEN EmptyBag ELSE SetToBag({Head(s)}) (+) BagOfSeq(Tail(s))

InsertChunks(cs) == IF cs = <<>> THEN vec ELSE vec (+) BagOfSeq(cs)

\* ------------------------------------------------------------ ContentProcessor
\* --- _table_to_markdown, lines 137-180
\* A table is the sequence of its <tr> rows, a row the sequence of its cells,
\* a cell [tag, text] with tag "th" or "td"; a text is a sequence of
\* characters and words, " " being whitespace.
Digits == <<"1", "2", "3", "4", "5", "6", "7", "8", "9">>

CellText(r, c) == <<" ", "r", Digits[r], "c", Digits[c], " ">>

RECURSIVE LStrip(_)
LStrip(text) ==
    IF text # <<>> /\ Head(text) = " " THEN LStrip(Tail(text)) ELSE text

RECURSIVE RStrip(_)
RStrip(text) ==
    IF text # <<>> /\ text[Len(text)] = " " THEN RStrip(SubSeq(text, 1, Len(text) - 1))
    ELSE text

\* cell.get_text(strip=True)
GetTextStrip(cell) == RStrip(LStrip(cell.text))

RECURSIVE Join(_, _)
Join(sep, texts) ==
    IF texts = <<>> THEN <<>>
    ELSE IF Len(texts) = 1 THEN texts[1]
    ELSE texts[1] \o sep \o Join(sep, Tail(texts))

\* '| ' + ' | '.join(texts) + ' |'
MarkdownRow(texts) == <<"| ">> \o Join(<<" | ">>, texts) \o <<" |">>

\* row.find_all('td'), row.find_all(['th', 'td']), row.find('th')
FindAll(row, tags) == SelectSeq(row, LAMBDA cell : cell.tag \in tags)

HasTh(row) == \E c \in 1..Len(row) : row[c].tag = "th"

CellTexts(row) ==
    LET cells == FindAll(row, {"th", "td"})
    IN  [c \in 1..Len(cells) |-> GetTextStrip(cells[c])]

GenericHeadersAlwaysColumns(num_columns) ==
    [i \in 1..num_columns |-> <<"Column ", Digits[i]>>]

\* line 167
GenericHeaders(num_columns) ==
    IF num_columns = 2 THEN << <<"Feature">>, <<"Details">> >>
    ELSE [i \in 1..num_columns |-> <<"Column ", Digits[i]>>]

\* The text returned, as the sequence of its lines ('\n'.join); <<>> is ""
TableToMarkdown(rows) ==
    IF rows = <<>> THEN <<>>
    ELSE LET first_row_is_header == HasTh(rows[1])
             header_cells == FindAll(rows[1], {"th", "td"})
             num_columns == Len(FindAll(rows[1], {"td"}))
             head == IF first_row_is_header
                     THEN << MarkdownRow(CellTexts(rows[1])),
                             MarkdownRow([c \in 1..Len(header_cells) |-> <<"---">>]) >>
                     ELSE << MarkdownRow(GenericHeaders(num_columns)),
                             MarkdownRow([c \in 1..num_columns |-> <<"---">>]) >>
             body_rows == IF first_row_is_header THEN Tail(rows) ELSE rows
         IN  head \o [k \in 1..Len(body_rows) |-> MarkdownRow(CellTexts(body_rows[k]))]

\* The rows a <tr> can be, and the tables of n rows
RowsAt(r) ==
    UNION {{[c \in 1..n |-> [tag |-> tags[c], text |-> CellText(r, c)]] :
               tags \in [1..n -> {"th", "td"}]} : n \in 0..MaxCols}

RECURSIVE TablesOf(_)
TablesOf(n) ==
    IF n = 0 THEN {<<>>}
    ELSE LET rows == RowsAt(n)
         IN  {Append(t, row) : t \in TablesOf(n - 1), row \in rows}

\* _chunk_text on the clean text of the page
ChunkText(html) == html

Embedding(text) == <<"vector", text>>

RECURSIVE MilvusChunks(_, _, _, _)
MilvusChunks(page, chunk_texts, ok, i) ==
    IF i > Len(chunk_texts) THEN <<>>
    ELSE (IF ok[i]
          THEN <<[vector |-> Embedding(chunk_texts[i]),
                  page_id |-> page.id,
                  text_content |-> chunk_texts[i],
                  page_title |-> page.title,
                  section_name |-> page.sectionDisplayName]>>
          ELSE <<>>) \o MilvusChunks(page, chunk_texts, ok, i + 1)

\* process_page, with ok[i] telling whether the embedding call of chunk i succeeds
ProcessPage(page, ok) ==
    IF page.html_content = <<>> THEN <<>>
    ELSE MilvusChunks(page, ChunkText(page.html_content), ok, 1)

EmbedOutcomes(page) == [1..Len(ChunkText(page.html_content)) -> BOOLEAN]

\* --- _process_table, lines 182-198
\* A string is [kind, ...]: plain text, or one of the two tagged formats
Str(text) == [kind |-> "str", text |-> text]
EmptyStr == Str(<<>>)
TableInfo(summary, md) == [kind |-> "TABLE_INFO", summary |-> summary, markdown_table |-> md]
ImageInfo(source, description) ==
    [kind |-> "IMAGE_INFO", source |-> source, description |-> description]

\* What the model answers to the table prompt
TableSummary(md) == <<" ", "summary of ", Len(md), " lines", " ">>

ProcessTable(rows, summary_ok) ==
    LET md == TableToMarkdown(rows)
    IN  IF md = <<>> THEN EmptyStr
        ELSE IF summary_ok THEN TableInfo(RStrip(LStrip(TableSummary(md))), md)
        ELSE EmptyStr

\* --- _process_image, lines 200-254
\* An src is the sequence of the parts of the URL; <<>> is no src
ResourceSrc == <<"https://graph.microsoft.com/v1.0/", "sites", "/s1", "/onenote/resources/", "r1">>
SiteCollectionsSrc ==
    <<"https://graph.microsoft.com/v1.0/", "siteCollections", "/s1", "/onenote/resources/", "r2">>
ExternalSrc == <<"https://example.com/", "logo.png">>

Contains(src, part) == \E k \in 1..Len(src) : src[k] = part

\* line 206
ReplaceSiteCollections(src) ==
    [k \in 1..Len(src) |-> IF src[k] = "siteCollections" THEN "sites" ELSE src[k]]

\* The fields of Settings (core/config.py) that _process_image reads
SettingsFields == {"AWS_REGION_NAME"}

\* How far _process_image gets for an image of the resource endpoint: the
\* download raises; reading settings.AWS_S3_BUCKET_NAME raises; head_object or
\* upload_fileobj raises; the description call raises; or nothing raises
ImageOutcomes ==
    {"get_failed"} \cup
    (IF "AWS_S3_BUCKET_NAME" \in SettingsFields
     THEN {"s3_failed", "describe_failed", "ok"}
     ELSE {"no_setting"})

IsResource(src) == src # <<>> /\ Contains(src, "/onenote/resources/")

\* line 213: the bytes the resource endpoint answers with for src
ImageData(src) == <<"bytes of", src[Len(src)]>>

\* lines 215-216: the extension filetype.guess gives, "png" when it gives none
FileExtension(image_data) == "png"

\* lines 218-219: the first 16 hex digits of the SHA-256 of the bytes, a dot
\* and the extension
S3ObjectName(image_data) == <<"sha256[:16]", image_data, ".", FileExtension(image_data)>>

\* line 245
HttpUri(s3_object_name) ==
    <<"https://", "bucket", ".s3.", "region", ".amazonaws.com/", s3_object_name>>

\* lines 222-224: head_object answers for a key the bucket holds
HeadObject(s3_object_name) == s3_object_name \in s3_objects

\* What the bucket can hold before a page is processed
S3Buckets == {{}, {S3ObjectName(ImageData(ResourceSrc))}}

ProcessImage(src, outcome) ==
    IF ~ IsResource(src) THEN EmptyStr
    ELSE IF outcome = "ok"
         THEN ImageInfo(HttpUri(S3ObjectName(ImageData(ReplaceSiteCollections(src)))),
                        <<"description">>)
         ELSE EmptyStr

ImageCalls(src, outcome) ==
    IF ~ IsResource(src) THEN {}
    ELSE {"get_image"} \cup
         (IF outcome \in {"s3_failed", "describe_failed", "ok"} THEN {"s3"} ELSE {}) \cup
         (IF outcome \in {"describe_failed", "ok"} THEN {"describe_image"} ELSE {})

\* --- process_page, lines 275-317
TextElem(text) == [tag |-> "text", string |-> Str(text)]
TableElem(rows) == [tag |-> "table", rows |-> rows]
ImgElem(src) == [tag |-> "img", src |-> src]

Td(r, c) == [tag |-> "td", text |-> CellText(r, c)]

\* The elements a page is made of: two paragraphs, a table of one row of three
\* <td> cells, a table without rows, and images with the four kinds of src
PageElements ==
    {TextElem(<<"alpha">>), TextElem(<<"beta">>),
     TableElem(<< <<Td(1, 1), Td(1, 2), Td(1, 3)>> >>), TableElem(<<>>),
     ImgElem(ResourceSrc), ImgElem(SiteCollectionsSrc), ImgElem(ExternalSrc), ImgElem(<<>>)}

HtmlContents ==
    UNION {[1..n -> PageElements] : n \in 0..MaxElems}

\* BeautifulSoup(page_html, 'html.parser'): the elements of the page, in order
BeautifulSoup(page_html) == [k \in 1..Len(page_html) |-> page_html[k]]

\* soup.find_all(tag), as the positions of the elements, in document order
FindAllTags(tag) == {k \in 1..Len(soup) : soup[k].tag = tag}

First(S) == CHOOSE k \in S : \A j \in S : k <= j

\* soup.get_text(separator='\n', strip=True): the non-empty strings, in order
RECURSIVE GetText(_, _)
GetText(elems, k) ==
    IF k > Len(elems) THEN <<>>
    ELSE (IF elems[k].tag = "text" /\ elems[k].string # EmptyStr
          THEN <<elems[k].string>> ELSE <<>>) \o GetText(elems, k + 1)

MilvusRowsKeepUnembedded(page, texts, embeddings, i) ==
    [k \in 1..Len(texts) |->
        [vector |-> embeddings[k], page_id |-> page.id, text_content |-> texts[k],
         page_title |-> page.title, section_name |-> page.sectionDisplayName]]

\* lines 303-312
RECURSIVE MilvusRows(_, _, _, _)
MilvusRows(page, texts, embeddings, i) ==
    IF i > Len(texts) THEN <<>>
    ELSE (IF i <= Len(embeddings) /\ embeddings[i] # <<>>
          THEN <<[vector |-> embeddings[i],
                  page_id |-> page.id,
                  text_content |-> texts[i],
                  page_title |-> page.title,
                  section_name |-> page.sectionDisplayName]>>
          ELSE <<>>) \o MilvusRows(page, texts, embeddings, i + 1)

NoId == 0
NoPage == [id |-> NoId, title |-> <<>>, sectionDisplayName |-> <<>>, html_content |-> <<>>]

\* ------------------------------------------------------------ run_pipeline
NoResult == [kind |-> "none"]

EmptyStats ==
    [new |-> [count |-> 0, titles |-> <<>>],
     updated |-> [count |-> 0, titles |-> <<>>],
     deleted |-> [count |-> 0, ids |-> <<>>],
     skipped |-> [count |-> 0]]

EmptyFetchReport ==
    [kind |-> "report", status |-> "success", message |-> EmptyFetchMessage,
     new_pages_count |-> 0, new_pages_titles |-> <<>>,
     updated_pages_count |-> 0, updated_pages_titles |-> <<>>,
     deleted_pages_count |-> 0, deleted_pages_ids |-> <<>>,
     skipped_pages_count |-> 0]

Report(stats) ==
    [kind |-> "report", status |-> "success", message |-> NoMessage,
     new_pages_count |-> stats.new.count, new_pages_titles |-> stats.new.titles,
     updated_pages_count |-> stats.updated.count,
     updated_pages_titles |-> stats.updated.titles,
     deleted_pages_count |-> stats.deleted.count,
     deleted_pages_ids |-> stats.deleted.ids,
     skipped_pages_count |-> stats.skipped.count]

\* The branch of the per-page if/elif/else
\* Mutant: >= where the code has >
ClassifyAtLeast(onenote_modified_time, db_time) ==
    IF db_time = NoTime THEN "new"
    ELSE IF onenote_modified_time >= db_time THEN "updated"
    ELSE "skipped"

Classify(onenote_modified_time, db_time) ==
    IF db_time = NoTime THEN "new"
    ELSE IF onenote_modified_time > db_time THEN "updated"
    ELSE "skipped"

\* Mutant: the elif branch counts the page under "new"
CountPageUpdatedAsNew(stats, branch, page) ==
    IF branch \in {"new", "updated"}
    THEN [stats EXCEPT !.new = [count |-> @.count + 1, titles |-> Append(@.titles, page.title)]]
    ELSE [stats EXCEPT !.skipped = [count |-> @.count + 1]]

CountPageTitleOnly(stats, branch, page) ==
    IF branch = "new"
    THEN [stats EXCEPT !.new = [count |-> @.count + 1, titles |-> Append(@.titles, page.title)]]
    ELSE IF branch = "updated"
    THEN [stats EXCEPT !.updated = [count |-> @.count, titles |-> Append(@.titles, page.title)]]
    ELSE [stats EXCEPT !.skipped = [count |-> @.count + 1]]

CountPage(stats, branch, page) ==
    IF branch = "new"
    THEN [stats EXCEPT !.new = [count |-> @.count + 1, titles |-> Append(@.titles, page.title)]]
    ELSE IF branch = "updated"
    THEN [stats EXCEPT !.updated = [count |-> @.count + 1, titles |-> Append(@.titles, page.title)]]
    ELSE [stats EXCEPT !.skipped = [count |-> @.count + 1]]

SyncAction(branch) == IF branch = "new" THEN "CREATED" ELSE "UPDATED"

CurPage == all_pages[idx]
CurBranch == Classify(OnenoteModifiedTime(CurPage), db_modified_time)
RemotePageIds == {all_pages[k].id : k \in 1..Len(all_pages)}

\* --- what a run may find in the stores
\* The two databases outlive the process: a run starts from whatever earlier
\* runs left. MetaRow and PageChunkSets are the rows those runs can have written.
MetaRow(p, t) ==
    [last_modified_time |-> TimestampTz(IsoFormat(t)), title |-> Title(p),
     section_name |-> SectionName(p)]

SeqToSet(s) == {s[k] : k \in 1..Len(s)}

PageChunkSets(p) ==
    {{}} \cup {SeqToSet(ProcessPage(PageDict(p, v), ok)) :
                  v \in Timestamps, ok \in [1..1 -> BOOLEAN]}

ChunksOf(bag, page_id) == {c \in DOMAIN bag : c.page_id = page_id}

\* Every step of a run preserves StoreInv, and the empty stores satisfy it:
\* no page has two copies of a chunk, and the chunks stored for a page that has
\* a metadata row are not of an older version than the row's timestamp.
StoreInv ==
    /\ \A c \in DOMAIN vec : vec[c] = 1
    /\ \A p \in DOMAIN meta : \A c \in ChunksOf(vec, p) :
           meta[p].last_modified_time <= c.text_content[2]

\* The state of a process that has not run the pipeline yet
\* The steps of one iteration of `for page in all_pages` (lines 59-102)
PageLoopSteps == {"lookup", "log", "delete", "process", "insert", "upsert"}

\* The previous run returned, or stopped outside the page loop
NoInterrupt == [page |-> NoId, at |-> "none"]

\* trigger_pipeline has not answered
NoHttpResponse == [status_code |-> 0, detail |-> "", body |-> NoResult]

\* What a thread running trigger_pipeline keeps between two of its steps: the
\* locals of run_pipeline and of get_access_token, with their history
Context ==
    [pc |-> pc, pg_handler |-> pg_handler, milvus_handler |-> milvus_handler,
     all_pages |-> all_pages, idx |-> idx, db_modified_time |-> db_modified_time,
     chunks |-> chunks, process_stats |-> process_stats,
     deleted_page_ids |-> deleted_page_ids, cur_deleted |-> cur_deleted,
     result |-> result, meta0 |-> meta0, vec0 |-> vec0, log0 |-> log0,
     outputs |-> outputs, prev_pages |-> prev_pages, interrupted |-> interrupted,
     auth0 |-> auth0, token_pg |-> token_pg, tpc |-> tpc, attempt |-> attempt,
     response |-> response, access_token |-> access_token,
     http_response |-> http_response]

InitProcess ==
    /\ sync_log = <<>>
    /\ pc = "idle"
    /\ pg_handler = "None"
    /\ milvus_handler = "None"
    /\ all_pages = <<>>
    /\ idx = 0
    /\ db_modified_time = NoTime
    /\ chunks = <<>>
    /\ process_stats = EmptyStats
    /\ deleted_page_ids = {}
    /\ cur_deleted = 0
    /\ result = NoResult
    /\ runs = 0
    /\ meta0 = meta
    /\ vec0 = vec
    /\ log0 = 0
    /\ outputs = << >>
    /\ prev_pages = <<>>
    /\ auth0 = auth
    /\ token_pg = "None"
    /\ tpc = "idle"
    /\ attempt = 0
    /\ response = NoResponse
    /\ access_token = NoToken
    /\ interrupted = NoInterrupt
    /\ http_response = NoHttpResponse
    /\ other = Context
    /\ switches = 0

\* No _table_to_markdown call and no process_page call is being followed
InitNoTable ==
    /\ table_tag = <<>>
    /\ markdown_table = <<>>
    /\ tbl_pc = "idle"

InitNoPage ==
    /\ page_data = NoPage
    /\ soup = <<>>
    /\ cp_pc = "idle"
    /\ text_chunks = <<>>
    /\ chunk_embeddings = <<>>
    /\ milvus_chunks = <<>>
    /\ calls = {}
    /\ failed = {}
    /\ s3_objects = {}
    /\ uploads = <<>>
    /\ downloaded = {}

Init ==
    /\ remote \in [Pages -> {NoTime} \cup Timestamps]
    /\ \E mts \in [Pages -> {NoTime} \cup Timestamps] :
          meta = [p \in {q \in Pages : mts[q] # NoTime} |-> MetaRow(p, mts[p])]
    /\ \E cs \in [Pages -> UNION {PageChunkSets(p) : p \in Pages}] :
          /\ \A p \in Pages : cs[p] \in PageChunkSets(p)
          /\ vec = SetToBag(UNION {cs[p] : p \in Pages})
    /\ StoreInv
    /\ auth \in AuthRows
    /\ InitProcess
    /\ InitNoTable
    /\ InitNoPage

\* Four pages, and stores as a run that returned a report leaves them: every
\* row with the chunks of the version it names.
ScenarioPages == 1..4

AllEmbedded == [k \in 1..1 |-> TRUE]

InitScenario ==
    /\ remote \in [ScenarioPages -> {NoTime} \cup Timestamps]
    /\ \E mts \in [ScenarioPages -> {NoTime} \cup Timestamps] :
          /\ meta = [p \in {q \in ScenarioPages : mts[q] # NoTime} |-> MetaRow(p, mts[p])]
          /\ vec = SetToBag(UNION {SeqToSet(ProcessPage(PageDict(p, mts[p]), AllEmbedded)) :
                                     p \in {q \in ScenarioPages : mts[q] # NoTime}})
    /\ auth = ValidAuth
    /\ InitProcess
    /\ InitNoTable
    /\ InitNoPage

\* --- run_pipeline, lines 13-16
BeginRun ==
    /\ runs' = runs + 1
    /\ pc' = "init"
    /\ pg_handler' = "None"
    /\ milvus_handler' = "None"
    /\ result' = NoResult
    /\ all_pages' = <<>>
    /\ idx' = 0
    /\ db_modified_time' = NoTime
    /\ chunks' = <<>>
    /\ process_stats' = EmptyStats
    /\ deleted_page_ids' = {}
    /\ cur_deleted' = 0
    /\ meta0' = meta
    /\ vec0' = vec
    /\ log0' = Len(sync_log)
    /\ outputs' = << >>
    /\ prev_pages' = IF result.kind = "report" THEN all_pages ELSE <<>>
    /\ auth0' = auth
    /\ token_pg' = "None"
    /\ tpc' = "idle"
    /\ attempt' = 0
    /\ response' = NoResponse
    /\ access_token' = NoToken
    /\ interrupted' = IF result.kind \in {"raised", "crashed"} /\ result.at \in PageLoopSteps
                      THEN [page |-> all_pages[idx].id, at |-> result.at]
                      ELSE NoInterrupt
    /\ http_response' = NoHttpResponse
    /\ UNCHANGED <<tableVars, cpVars, remote, threadVars, storeVars, auth>>

StartRun ==
    /\ pc = "idle"
    /\ BeginRun

\* run_pipeline is called a second time
RunAgain ==
    /\ pc = "done"
    /\ runs < 2
    /\ BeginRun

Raised(at) == [kind |-> "raised", at |-> at]

\* --- lines 20-26: the handlers are constructed and the schemas ensured
InitHandlers ==
    /\ pc = "init"
    /\ pg_handler' = "open"
    /\ milvus_handler' = "open"
    /\ pc' = "token"
    /\ UNCHANGED <<tokenVars, tableVars, cpVars, remote, http_response, threadVars, storeVars, localVars, result, runs, histVars, outputs>>

\* PostgresHandler() raises (pg = FALSE), MilvusHandler() does (mv = FALSE), or
\* one of lines 25-26 does
InitHandlersRaise(pg, mv) ==
    /\ pc = "init"
    /\ mv => pg
    /\ pg_handler' = IF pg THEN "open" ELSE "None"
    /\ milvus_handler' = IF mv THEN "open" ELSE "None"
    /\ result' = Raised("init")
    /\ pc' = "finally"
    /\ UNCHANGED <<tokenVars, tableVars, cpVars, remote, http_response, threadVars, storeVars, localVars, runs, histVars, outputs>>

\* --- ms_graph_auth.get_access_token, called at line 30
\* lines 31-33: its own PostgresHandler is constructed
TokenConnect ==
    /\ pc = "token" /\ tpc = "idle"
    /\ token_pg' = "open"
    /\ tpc' = "auth"
    /\ UNCHANGED <<vars_run, auth, auth0, attempt, response, access_token>>

\* PostgresHandler() raises: line 97 logs and re-raises
TokenConnectRaise ==
    /\ pc = "token" /\ tpc = "idle"
    /\ tpc' = "raise"
    /\ UNCHANGED <<vars_run, auth, auth0, token_pg, attempt, response, access_token>>

TokenGetAuthRowOnly ==
    /\ pc = "token" /\ tpc = "auth"
    /\ tpc' = IF GetAuthByEmail = NoAuth THEN "raise" ELSE "post"
    /\ attempt' = 0
    /\ UNCHANGED <<vars_run, auth, auth0, token_pg, response, access_token>>

\* lines 37-41: the stored refresh token is read; line 39 raises without one
TokenGetAuth ==
    /\ pc = "token" /\ tpc = "auth"
    /\ LET auth_info == GetAuthByEmail
       IN  tpc' = IF auth_info = NoAuth \/ \A row \in auth_info : row.refresh_token = NoToken
                  THEN "raise" ELSE "post"
    /\ attempt' = 0
    /\ UNCHANGED <<vars_run, auth, auth0, token_pg, response, access_token>>

\* lines 60-71: one token request and what comes back
TokenPost(r) ==
    /\ pc = "token" /\ tpc = "post"
    /\ response' = r
    /\ tpc' = IF RaiseForStatus(r) THEN "except"
              ELSE IF ~ CompleteTokenData(r) THEN "break"
              ELSE "update"
    /\ UNCHANGED <<vars_run, auth, auth0, token_pg, attempt, access_token>>

\* line 60: requests.post is called without a timeout, so when the identity
\* provider accepts the connection and never answers the call does not return
TokenPostBlocks ==
    /\ pc = "token" /\ tpc = "post"
    /\ tpc' = "blocked"
    /\ UNCHANGED <<vars_run, auth, auth0, token_pg, attempt, response, access_token>>

TokenUpdateNotStored ==
    /\ pc = "token" /\ tpc = "update"
    /\ tpc' = "return"
    /\ UNCHANGED <<vars_run, auth, auth0, token_pg, attempt, response, access_token>>

\* lines 74-82: the new tokens are stored
TokenUpdate ==
    /\ pc = "token" /\ tpc = "update"
    /\ auth' = UpdateAuthTokens(response.access_token, response.refresh_token,
                                ExpiresAt(response.expires_in))
    /\ tpc' = "return"
    /\ UNCHANGED <<vars_run, auth0, token_pg, attempt, response, access_token>>

\* get_auth_by_email or update_auth_tokens raises: line 97 logs and re-raises
TokenStoreRaise ==
    /\ pc = "token" /\ tpc \in {"auth", "update"}
    /\ tpc' = "raise"
    /\ UNCHANGED <<vars_run, auth, auth0, token_pg, attempt, response, access_token>>

\* lines 84-95: a RequestException is caught; the loop stops or, after the
\* sleep of backoff_factor * 2 ** attempt (lines 92-95), goes on
TokenExcept ==
    /\ pc = "token" /\ tpc = "except"
    /\ LET status_code == StatusCode(response)
       IN  IF status_code # NoStatus /\ 400 <= status_code /\ status_code < 500
           THEN tpc' = "break" /\ attempt' = attempt
           ELSE IF attempt < max_retries - 1
                THEN tpc' = "post" /\ attempt' = attempt + 1
                ELSE tpc' = "break" /\ attempt' = attempt
    /\ UNCHANGED <<vars_run, auth, auth0, token_pg, response, access_token>>

\* lines 82, 101-103: `finally` closes the handler and the token is returned
\* to line 30 of run_pipeline
GetAccessToken ==
    /\ pc = "token" /\ tpc = "return"
    /\ token_pg' = "closed"
    /\ access_token' = response.access_token
    /\ tpc' = "idle"
    /\ attempt' = 0
    /\ response' = NoResponse
    /\ pc' = "fetch"
    /\ UNCHANGED <<tableVars, cpVars, remote, http_response, threadVars, storeVars, pg_handler, milvus_handler, localVars, result, runs,
                   histVars, outputs, auth, auth0>>

GetAccessTokenSwallowed ==
    /\ pc = "token" /\ tpc \in {"raise", "break"}
    /\ token_pg' = IF token_pg = "open" THEN "closed" ELSE token_pg
    /\ tpc' = "idle"
    /\ attempt' = 0
    /\ response' = NoResponse
    /\ pc' = "fetch"
    /\ UNCHANGED <<tableVars, cpVars, remote, http_response, threadVars, storeVars, pg_handler, milvus_handler, localVars, result, runs,
                   histVars, outputs, auth, auth0, access_token>>

\* lines 97-105: `finally` closes the handler if there is one, and the
\* exception (line 100 or line 105) leaves run_pipeline's try block
GetAccessTokenRaise ==
    /\ pc = "token" /\ tpc \in {"raise", "break"}
    /\ token_pg' = IF token_pg = "open" THEN "closed" ELSE token_pg
    /\ tpc' = "idle"
    /\ attempt' = 0
    /\ response' = NoResponse
    /\ result' = Raised("token")
    /\ pc' = "finally"
    /\ UNCHANGED <<tableVars, cpVars, remote, http_response, threadVars, storeVars, pg_handler, milvus_handler, localVars, runs,
                   histVars, outputs, auth, auth0, access_token>>

\* --- lines 33-57: the fetch, the empty-list return, process_stats
FetchLosses == {{}} \cup {{p} : p \in RemoteIds} \cup {RemoteIds}

\* Mutant: no early return on an empty page list
FetchPagesNoEarlyReturn(lost) ==
    /\ pc = "fetch"
    /\ all_pages' = FetchResult(lost)
    /\ IF all_pages' = <<>>
       THEN /\ pc' = "sweep"
            /\ idx' = 0
       ELSE /\ pc' = "lookup"
            /\ idx' = 1
    /\ process_stats' = EmptyStats
    /\ UNCHANGED <<tokenVars, tableVars, cpVars, remote, http_response, threadVars, storeVars, pg_handler, milvus_handler, db_modified_time, chunks,
                   deleted_page_ids, cur_deleted, result, runs, histVars, outputs>>

FetchPagesPurgesOnEmpty(lost) ==
    /\ pc = "fetch"
    /\ all_pages' = FetchResult(lost)
    /\ IF all_pages' = <<>>
       THEN /\ result' = EmptyFetchReport
            /\ pc' = "finally"
            /\ idx' = 0
            /\ meta' = << >>
       ELSE /\ result' = result
            /\ pc' = "lookup"
            /\ idx' = 1
            /\ meta' = meta
    /\ process_stats' = EmptyStats
    /\ UNCHANGED <<tokenVars, tableVars, cpVars, remote, http_response, threadVars, vec, sync_log, pg_handler, milvus_handler, db_modified_time, chunks,
                   deleted_page_ids, cur_deleted, runs, histVars, outputs>>

FetchPages(lost) ==
    /\ pc = "fetch"
    /\ all_pages' = FetchResult(lost)
    /\ IF all_pages' = <<>>
       THEN /\ result' = EmptyFetchReport
            /\ pc' = "finally"
            /\ idx' = 0
       ELSE /\ result' = result
            /\ pc' = "lookup"
            /\ idx' = 1
    /\ process_stats' = EmptyStats
    /\ UNCHANGED <<tokenVars, tableVars, cpVars, remote, http_response, threadVars, storeVars, pg_handler, milvus_handler, db_modified_time, chunks,
                   deleted_page_ids, cur_deleted, runs, histVars, outputs>>

LookupPageSkipDeletes ==
    /\ pc = "lookup"
    /\ db_modified_time' = GetPageLastModified(CurPage.id)
    /\ LET branch == Classify(OnenoteModifiedTime(CurPage), db_modified_time')
       IN /\ process_stats' = CountPage(process_stats, branch, CurPage)
          /\ IF branch = "skipped"
             THEN /\ vec' = DeleteVectorsByPageId(CurPage.id)
                  /\ IF idx < Len(all_pages)
                     THEN /\ idx' = idx + 1
                          /\ pc' = "lookup"
                     ELSE /\ idx' = idx
                          /\ pc' = "sweep"
             ELSE /\ vec' = vec
                  /\ idx' = idx
                  /\ pc' = "log"
    /\ UNCHANGED <<tokenVars, tableVars, cpVars, remote, http_response, threadVars, meta, sync_log, pg_handler,
                   milvus_handler, all_pages, chunks, deleted_page_ids, cur_deleted, result,
                   runs, histVars, outputs>>

\* --- lines 62-70, 84-86, 100-102: look the page up and count it
LookupPage ==
    /\ pc = "lookup"
    /\ db_modified_time' = GetPageLastModified(CurPage.id)
    /\ LET branch == Classify(OnenoteModifiedTime(CurPage), db_modified_time')
       IN /\ process_stats' = CountPage(process_stats, branch, CurPage)
          /\ IF branch = "skipped"
             THEN IF idx < Len(all_pages)
                  THEN /\ idx' = idx + 1
                       /\ pc' = "lookup"
                  ELSE /\ idx' = idx
                       /\ pc' = "sweep"
             ELSE /\ idx' = idx
                  /\ pc' = "log"
    /\ UNCHANGED <<tokenVars, tableVars, cpVars, remote, http_response, threadVars, storeVars, pg_handler, milvus_handler, all_pages, chunks,
                   deleted_page_ids, cur_deleted, result, runs, histVars, outputs>>

\* Mutant: the metadata row is written where the sync event is, before the vectors
LogPageAndUpsert ==
    /\ pc = "log"
    /\ sync_log' = InsertSyncLog(CurPage.id, SyncAction(CurBranch))
    /\ meta' = UpsertPageMetadata(CurPage.id, IsoFormat(OnenoteModifiedTime(CurPage)),
                                  CurPage.title, CurPage.sectionDisplayName)
    /\ pc' = "delete"
    /\ UNCHANGED <<tokenVars, tableVars, cpVars, remote, http_response, threadVars, vec, pg_handler, milvus_handler, localVars, result, runs,
                   histVars, outputs>>

\* --- lines 72, 88
LogPage ==
    /\ pc = "log"
    /\ sync_log' = InsertSyncLog(CurPage.id, SyncAction(CurBranch))
    /\ pc' = "delete"
    /\ UNCHANGED <<tokenVars, tableVars, cpVars, remote, http_response, threadVars, meta, vec, pg_handler, milvus_handler, localVars, result, runs,
                   histVars, outputs>>

DeleteOldVectorsAndUpsert ==
    /\ pc = "delete"
    /\ vec' = DeleteVectorsByPageId(CurPage.id)
    /\ meta' = UpsertPageMetadata(CurPage.id, IsoFormat(OnenoteModifiedTime(CurPage)),
                                  CurPage.title, CurPage.sectionDisplayName)
    /\ pc' = "process"
    /\ UNCHANGED <<tokenVars, tableVars, cpVars, remote, http_response, threadVars, sync_log, pg_handler, milvus_handler, localVars, result,
                   runs, histVars, outputs>>

DeleteOldVectorsKeeps ==
    /\ pc = "delete"
    /\ pc' = "process"
    /\ UNCHANGED <<tokenVars, tableVars, cpVars, remote, http_response, threadVars, storeVars, pg_handler, milvus_handler, localVars, result,
                   runs, histVars, outputs>>

\* --- lines 74, 90
DeleteOldVectors ==
    /\ pc = "delete"
    /\ vec' = DeleteVectorsByPageId(CurPage.id)
    /\ pc' = "process"
    /\ UNCHANGED <<tokenVars, tableVars, cpVars, remote, http_response, threadVars, meta, sync_log, pg_handler, milvus_handler, localVars, result,
                   runs, histVars, outputs>>

\* --- lines 75, 91
ProcessCurPage ==
    /\ pc = "process"
    /\ \E ok \in EmbedOutcomes(CurPage) : chunks' = ProcessPage(CurPage, ok)
    /\ outputs' = [q \in DOMAIN outputs \cup {CurPage.id} |->
                      IF q = CurPage.id THEN chunks' ELSE outputs[q]]
    /\ pc' = "insert"
    /\ UNCHANGED <<tokenVars, tableVars, cpVars, remote, http_response, threadVars, storeVars, pg_handler, milvus_handler, all_pages, idx,
                   db_modified_time, process_stats, deleted_page_ids, cur_deleted, result,
                   runs, histVars>>

\* --- lines 76-77, 92-93
InsertNewVectors ==
    /\ pc = "insert"
    /\ vec' = IF chunks # <<>> THEN InsertChunks(chunks) ELSE vec
    /\ pc' = "upsert"
    /\ UNCHANGED <<tokenVars, tableVars, cpVars, remote, http_response, threadVars, meta, sync_log, pg_handler, milvus_handler, localVars, result,
                   runs, histVars, outputs>>

\* --- lines 78-83, 94-99, and the loop's next iteration
UpsertMetadata ==
    /\ pc = "upsert"
    /\ meta' = UpsertPageMetadata(CurPage.id, IsoFormat(OnenoteModifiedTime(CurPage)),
                                  CurPage.title, CurPage.sectionDisplayName)
    /\ IF idx < Len(all_pages)
       THEN /\ idx' = idx + 1
            /\ pc' = "lookup"
       ELSE /\ idx' = idx
            /\ pc' = "sweep"
    /\ UNCHANGED <<tokenVars, tableVars, cpVars, remote, http_response, threadVars, vec, sync_log, pg_handler, milvus_handler, all_pages,
                   db_modified_time, chunks, process_stats, deleted_page_ids, cur_deleted,
                   result, runs, histVars, outputs>>

\* Mutant: remote_page_ids - local_page_ids
StartSweepRemoteMinusLocal ==
    /\ pc = "sweep"
    /\ deleted_page_ids' = RemotePageIds \ GetAllPageIds
    /\ IF deleted_page_ids' = {}
       THEN /\ result' = Report(process_stats)
            /\ pc' = "finally"
       ELSE /\ result' = result
            /\ pc' = "sweep_log"
    /\ UNCHANGED <<tokenVars, tableVars, cpVars, remote, http_response, threadVars, storeVars, pg_handler, milvus_handler, all_pages, idx,
                   db_modified_time, chunks, process_stats, cur_deleted, runs, histVars,
                   outputs>>

StartSweepSparesSource ==
    /\ pc = "sweep"
    /\ deleted_page_ids' = GetAllPageIds \ (RemotePageIds \cup RemoteIds)
    /\ IF deleted_page_ids' = {}
       THEN /\ result' = Report(process_stats)
            /\ pc' = "finally"
       ELSE /\ result' = result
            /\ pc' = "sweep_log"
    /\ UNCHANGED <<tokenVars, tableVars, cpVars, remote, http_response, threadVars, storeVars, pg_handler, milvus_handler, all_pages, idx,
                   db_modified_time, chunks, process_stats, cur_deleted, runs, histVars,
                   outputs>>

StartSweepAllLocal ==
    /\ pc = "sweep"
    /\ deleted_page_ids' = GetAllPageIds
    /\ IF deleted_page_ids' = {}
       THEN /\ result' = Report(process_stats)
            /\ pc' = "finally"
       ELSE /\ result' = result
            /\ pc' = "sweep_log"
    /\ UNCHANGED <<tokenVars, tableVars, cpVars, remote, http_response, threadVars, storeVars, pg_handler, milvus_handler, all_pages, idx,
                   db_modified_time, chunks, process_stats, cur_deleted, runs, histVars,
                   outputs>>

\* --- lines 105-108, and 122-133 when nothing is to delete
StartSweep ==
    /\ pc = "sweep"
    /\ deleted_page_ids' = GetAllPageIds \ RemotePageIds
    /\ IF deleted_page_ids' = {}
       THEN /\ result' = Report(process_stats)
            /\ pc' = "finally"
       ELSE /\ result' = result
            /\ pc' = "sweep_log"
    /\ UNCHANGED <<tokenVars, tableVars, cpVars, remote, http_response, threadVars, storeVars, pg_handler, milvus_handler, all_pages, idx,
                   db_modified_time, chunks, process_stats, cur_deleted, runs, histVars,
                   outputs>>

\* --- lines 110-116
SweepLog(page_id) ==
    /\ pc = "sweep_log"
    /\ page_id \in deleted_page_ids
    /\ cur_deleted' = page_id
    /\ process_stats' = [process_stats EXCEPT
                            !.deleted = [count |-> @.count + 1, ids |-> Append(@.ids, page_id)]]
    /\ sync_log' = InsertSyncLog(page_id, "DELETED")
    /\ pc' = "sweep_vec"
    /\ UNCHANGED <<tokenVars, tableVars, cpVars, remote, http_response, threadVars, meta, vec, pg_handler, milvus_handler, all_pages, idx,
                   db_modified_time, chunks, deleted_page_ids, result, runs, histVars,
                   outputs>>

\* --- line 119
SweepVectors ==
    /\ pc = "sweep_vec"
    /\ vec' = DeleteVectorsByPageId(cur_deleted)
    /\ pc' = "sweep_meta"
    /\ UNCHANGED <<tokenVars, tableVars, cpVars, remote, http_response, threadVars, meta, sync_log, pg_handler, milvus_handler, localVars, result,
                   runs, histVars, outputs>>

\* --- line 120, the loop's next iteration, and 122-133 after the last one
SweepMetadata ==
    /\ pc = "sweep_meta"
    /\ meta' = DeletePageMetadata(cur_deleted)
    /\ deleted_page_ids' = deleted_page_ids \ {cur_deleted}
    /\ IF deleted_page_ids' = {}
       THEN /\ result' = Report(process_stats)
            /\ pc' = "finally"
       ELSE /\ result' = result
            /\ pc' = "sweep_log"
    /\ UNCHANGED <<tokenVars, tableVars, cpVars, remote, http_response, threadVars, vec, sync_log, pg_handler, milvus_handler, all_pages, idx,
                   db_modified_time, chunks, process_stats, cur_deleted, runs, histVars,
                   outputs>>

\* --- a call of the try block raises: nothing catches it before `finally`
RaisingSteps == {"lookup", "log", "delete", "process", "insert", "upsert",
                 "sweep", "sweep_log", "sweep_vec", "sweep_meta"}

Raise ==
    /\ pc \in RaisingSteps
    /\ result' = Raised(pc)
    /\ pc' = "finally"
    /\ UNCHANGED <<tokenVars, tableVars, cpVars, remote, http_response, threadVars, storeVars, pg_handler, milvus_handler, localVars, runs, histVars,
                   outputs>>

\* fetch_all_pages_sharepoint re-raises a failed site or notebook lookup
FetchRaise(use_sharepoint) ==
    /\ pc = "fetch"
    /\ use_sharepoint
    /\ result' = Raised("fetch")
    /\ pc' = "finally"
    /\ UNCHANGED <<tokenVars, tableVars, cpVars, remote, http_response, threadVars, storeVars, pg_handler, milvus_handler, localVars, runs, histVars,
                   outputs>>

FinallyClosesPostgresOnly ==
    /\ pc = "finally"
    /\ pg_handler' = IF pg_handler = "open" THEN "closed" ELSE pg_handler
    /\ pc' = "done"
    /\ UNCHANGED <<tokenVars, tableVars, cpVars, remote, http_response, threadVars, storeVars, milvus_handler, localVars, result, runs,
                   histVars, outputs>>

\* --- lines 134-140
Finally ==
    /\ pc = "finally"
    /\ pg_handler' = IF pg_handler = "open" THEN "closed" ELSE pg_handler
    /\ milvus_handler' = IF milvus_handler = "open" THEN "closed" ELSE milvus_handler
    /\ pc' = "done"
    /\ UNCHANGED <<tokenVars, tableVars, cpVars, remote, http_response, threadVars, storeVars, localVars, result, runs, histVars, outputs>>

\* --- the process stops between two calls (no `finally`)
Crash ==
    /\ pc \notin {"idle", "done", "init"}
    /\ result' = [kind |-> "crashed", at |-> pc]
    /\ pc' = "done"
    /\ UNCHANGED <<tokenVars, tableVars, cpVars, remote, http_response, threadVars, storeVars, pg_handler, milvus_handler, localVars, runs, histVars,
                   outputs>>

\* --- _table_to_markdown is called with a table
TableToMarkdownCall ==
    /\ tbl_pc = "call"
    /\ markdown_table' = TableToMarkdown(table_tag)
    /\ tbl_pc' = "returned"
    /\ UNCHANGED <<tokenVars, cpVars, remote, http_response, threadVars, storeVars, pc, pg_handler, milvus_handler,
                   localVars, result, runs, histVars, outputs, table_tag>>

\* A failure of the call made for element k of the page, or for chunk k
Failure(part, k) == [part |-> part, k |-> k]

\* --- process_page is called with a page
ProcessPageCallHtmlOnly ==
    /\ cp_pc = "call"
    /\ IF page_data.html_content = <<>>
       THEN /\ milvus_chunks' = <<>>
            /\ cp_pc' = "returned"
            /\ soup' = soup
       ELSE /\ soup' = BeautifulSoup(page_data.html_content)
            /\ cp_pc' = "replace"
            /\ milvus_chunks' = milvus_chunks
    /\ UNCHANGED <<tokenVars, tableVars, imageVars, remote, http_response, threadVars, storeVars, pc, pg_handler, milvus_handler,
                   localVars, result, runs, histVars, outputs, page_data, text_chunks,
                   chunk_embeddings, calls, failed>>

\* lines 277-284
ProcessPageCall ==
    /\ cp_pc = "call"
    /\ IF page_data.id = NoId \/ page_data.html_content = <<>>
       THEN /\ milvus_chunks' = <<>>
            /\ cp_pc' = "returned"
            /\ soup' = soup
       ELSE /\ soup' = BeautifulSoup(page_data.html_content)
            /\ cp_pc' = "replace"
            /\ milvus_chunks' = milvus_chunks
    /\ UNCHANGED <<tokenVars, tableVars, imageVars, remote, http_response, threadVars, storeVars, pc, pg_handler, milvus_handler,
                   localVars, result, runs, histVars, outputs, page_data, text_chunks,
                   chunk_embeddings, calls, failed>>

\* lines 287-288: the next table is replaced by what _process_table returns
ReplaceTable(summary_ok) ==
    /\ cp_pc = "replace"
    /\ FindAllTags("table") # {}
    /\ LET k == First(FindAllTags("table"))
           called == TableToMarkdown(soup[k].rows) # <<>>
       IN  /\ called \/ summary_ok
           /\ soup' = [soup EXCEPT ![k] =
                          [tag |-> "text", string |-> ProcessTable(soup[k].rows, summary_ok)]]
           /\ calls' = IF called THEN calls \cup {"summarize_table"} ELSE calls
           /\ failed' = IF summary_ok THEN failed ELSE failed \cup {Failure("table", k)}
    /\ UNCHANGED <<tokenVars, tableVars, imageVars, remote, http_response, threadVars, storeVars, pc, pg_handler, milvus_handler,
                   localVars, result, runs, histVars, outputs, page_data, cp_pc, text_chunks,
                   chunk_embeddings, milvus_chunks>>

\* lines 289-290: the next image is replaced by what _process_image returns
ReplaceImage(outcome) ==
    /\ cp_pc = "replace"
    /\ FindAllTags("table") = {}
    /\ FindAllTags("img") # {}
    /\ LET k == First(FindAllTags("img"))
           src == soup[k].src
       IN  /\ IsResource(src) \/ outcome = "get_failed"
           /\ soup' = [soup EXCEPT ![k] =
                          [tag |-> "text", string |-> ProcessImage(src, outcome)]]
           /\ calls' = calls \cup ImageCalls(src, outcome)
           /\ failed' = IF IsResource(src) /\ outcome # "ok"
                        THEN failed \cup {Failure("img", k)} ELSE failed
           /\ downloaded' = IF IsResource(src) /\ outcome # "get_failed"
                            THEN downloaded \cup {k} ELSE downloaded
           /\ LET s3_object_name == S3ObjectName(ImageData(ReplaceSiteCollections(src)))
                  reached == IsResource(src) /\ outcome \in {"describe_failed", "ok"}
              IN  IF reached /\ ~ HeadObject(s3_object_name)
                  THEN /\ s3_objects' = s3_objects \cup {s3_object_name}
                       /\ uploads' = Append(uploads, s3_object_name)
                  ELSE /\ s3_objects' = s3_objects
                       /\ uploads' = uploads
    /\ UNCHANGED <<tokenVars, tableVars, remote, http_response, threadVars, storeVars, pc, pg_handler, milvus_handler,
                   localVars, result, runs, histVars, outputs, page_data, cp_pc, text_chunks,
                   chunk_embeddings, milvus_chunks>>

\* lines 293-296: the clean text is taken and split into chunks
ExtractAndChunk ==
    /\ cp_pc = "replace"
    /\ FindAllTags("table") = {}
    /\ FindAllTags("img") = {}
    /\ text_chunks' = ChunkText(GetText(soup, 1))
    /\ chunk_embeddings' = <<>>
    /\ cp_pc' = "embed"
    /\ UNCHANGED <<tokenVars, tableVars, imageVars, remote, http_response, threadVars, storeVars, pc, pg_handler, milvus_handler,
                   localVars, result, runs, histVars, outputs, page_data, soup,
                   milvus_chunks, calls, failed>>

\* lines 265-272: one turn of the loop of _embed_chunks
EmbedChunk(ok) ==
    /\ cp_pc = "embed"
    /\ Len(chunk_embeddings) < Len(text_chunks)
    /\ LET chunk == text_chunks[Len(chunk_embeddings) + 1]
       IN  chunk_embeddings' = Append(chunk_embeddings, IF ok THEN Embedding(chunk) ELSE <<>>)
    /\ calls' = calls \cup {"embed"}
    /\ failed' = IF ok THEN failed ELSE failed \cup {Failure("chunk", Len(chunk_embeddings) + 1)}
    /\ UNCHANGED <<tokenVars, tableVars, imageVars, remote, http_response, threadVars, storeVars, pc, pg_handler, milvus_handler,
                   localVars, result, runs, histVars, outputs, page_data, soup, cp_pc,
                   text_chunks, milvus_chunks>>

\* lines 273, 303-317: the rows for Milvus are built and returned
ProcessPageReturn ==
    /\ cp_pc = "embed"
    /\ Len(chunk_embeddings) = Len(text_chunks)
    /\ milvus_chunks' = MilvusRows(page_data, text_chunks, chunk_embeddings, 1)
    /\ cp_pc' = "returned"
    /\ UNCHANGED <<tokenVars, tableVars, imageVars, remote, http_response, threadVars, storeVars, pc, pg_handler, milvus_handler,
                   localVars, result, runs, histVars, outputs, page_data, soup,
                   text_chunks, chunk_embeddings, calls, failed>>

\* The calls of one run_pipeline, none of them failing
RunStep ==
    \/ InitHandlers
    \/ TokenConnect
    \/ TokenGetAuth
    \/ TokenPost(NewTokens)
    \/ TokenUpdate
    \/ GetAccessToken
    \/ \E lost \in FetchLosses : FetchPages(lost)
    \/ LookupPage
    \/ LogPage
    \/ DeleteOldVectors
    \/ ProcessCurPage
    \/ InsertNewVectors
    \/ UpsertMetadata
    \/ StartSweep
    \/ \E page_id \in deleted_page_ids : SweepLog(page_id)
    \/ SweepVectors
    \/ SweepMetadata
    \/ Finally

\* One run_pipeline call, with every way it can fail
Next ==
    \/ StartRun
    \/ RunStep
    \/ \E pg, mv \in BOOLEAN : InitHandlersRaise(pg, mv)
    \/ TokenConnectRaise
    \/ TokenStoreRaise
    \/ \E r \in TokenResponses : TokenPost(r)
    \/ TokenExcept
    \/ GetAccessTokenRaise
    \/ \E use_sharepoint \in BOOLEAN : FetchRaise(use_sharepoint)
    \/ Raise
    \/ Crash

Spec == Init /\ [][Next]_vars

\* Two run_pipeline calls in a row over the same document source, none failing
NextTwice ==
    \/ StartRun
    \/ RunStep
    \/ RunAgain

SpecTwice == Init /\ [][NextTwice]_vars

\* One run_pipeline call over four pages, every request of the fetch answered
NextScenario ==
    \/ StartRun
    \/ InitHandlers
    \/ TokenConnect
    \/ TokenGetAuth
    \/ TokenPost(NewTokens)
    \/ TokenUpdate
    \/ GetAccessToken
    \/ FetchPages({})
    \/ LookupPage
    \/ LogPage
    \/ DeleteOldVectors
    \/ ProcessCurPage
    \/ InsertNewVectors
    \/ UpsertMetadata
    \/ StartSweep
    \/ \E page_id \in deleted_page_ids : SweepLog(page_id)
    \/ SweepVectors
    \/ SweepMetadata
    \/ Finally

SpecScenario == InitScenario /\ [][NextScenario]_vars

\* The stores of a process that only calls the content processor
InitNoRun ==
    /\ remote = [p \in Pages |-> NoTime]
    /\ meta = << >>
    /\ vec = EmptyBag
    /\ auth = ValidAuth
    /\ InitProcess

\* _table_to_markdown called with every table of at most MaxRows rows
InitTable ==
    /\ InitNoRun
    /\ InitNoPage
    /\ \E n \in 0..MaxRows : table_tag \in TablesOf(n)
    /\ markdown_table = <<>>
    /\ tbl_pc = "call"

NextTable == TableToMarkdownCall

\* process_page called with a page with or without id, of at most MaxElems elements
InitContent ==
    /\ InitNoRun
    /\ InitNoTable
    /\ \E id \in {NoId, 1}, html \in HtmlContents :
          page_data = [id |-> id, title |-> Title(1), sectionDisplayName |-> SectionName(1),
                       html_content |-> html]
    /\ soup = <<>>
    /\ cp_pc = "call"
    /\ text_chunks = <<>>
    /\ chunk_embeddings = <<>>
    /\ milvus_chunks = <<>>
    /\ calls = {}
    /\ failed = {}
    /\ s3_objects \in S3Buckets
    /\ uploads = <<>>
    /\ downloaded = {}

NextContent ==
    \/ ProcessPageCall
    \/ \E summary_ok \in BOOLEAN : ReplaceTable(summary_ok)
    \/ \E outcome \in ImageOutcomes : ReplaceImage(outcome)
    \/ ExtractAndChunk
    \/ \E ok \in BOOLEAN : EmbedChunk(ok)
    \/ ProcessPageReturn

SpecContent == InitContent /\ [][NextContent]_vars

\* --- api/v1/endpoints/pipeline.py, trigger_pipeline (lines 23-50)
InternalErrorDetail == "An internal server error occurred during pipeline execution."

InternalServerError == [status_code |-> 500, detail |-> InternalErrorDetail, body |-> NoResult]

TriggerRespondWithCause ==
    /\ pc = "done" /\ http_response = NoHttpResponse
    /\ result.kind \in {"report", "raised"}
    /\ http_response' = IF result.kind = "raised"
                        THEN [status_code |-> 500, detail |-> result.at, body |-> NoResult]
                        ELSE [status_code |-> 200, detail |-> "", body |-> result]
    /\ UNCHANGED <<tokenVars, tableVars, cpVars, remote, threadVars, storeVars, pc, pg_handler,
                   milvus_handler, localVars, result, runs, histVars, outputs>>

\* lines 41-43: run_pipeline returned and its report is the answer;
\* lines 44-50: it raised, the exception is logged and becomes an
\* HTTPException with status 500 and a fixed detail
TriggerRespond ==
    /\ pc = "done" /\ http_response = NoHttpResponse
    /\ result.kind \in {"report", "raised"}
    /\ http_response' = IF result.kind = "raised"
                        THEN InternalServerError
                        ELSE [status_code |-> 200, detail |-> "", body |-> result]
    /\ UNCHANGED <<tokenVars, tableVars, cpVars, remote, threadVars, storeVars, pc, pg_handler,
                   milvus_handler, localVars, result, runs, histVars, outputs>>

\* Stores as a run that returned a report leaves them, over Pages
InitClean ==
    /\ remote \in [Pages -> {NoTime} \cup Timestamps]
    /\ \E mts \in [Pages -> {NoTime} \cup Timestamps] :
          /\ meta = [p \in {q \in Pages : mts[q] # NoTime} |-> MetaRow(p, mts[p])]
          /\ vec = SetToBag(UNION {SeqToSet(ProcessPage(PageDict(p, mts[p]), AllEmbedded)) :
                                     p \in {q \in Pages : mts[q] # NoTime}})
    /\ auth \in AuthRows
    /\ InitProcess
    /\ InitNoTable
    /\ InitNoPage

\* One request to the endpoint: run_pipeline with every way it can fail, and
\* the answer
NextTrigger ==
    \/ Next
    \/ TriggerRespond

SpecTrigger == InitClean /\ [][NextTrigger]_vars

\* --- two requests at once: trigger_pipeline is a plain `def` (line 23), so
\* each request runs run_pipeline in a thread of its own, and nothing in
\* lines 17-50 or in run_pipeline keeps a second run from starting
MaxSwitches == 3

\* The running thread is suspended between two of its steps and the other
\* thread goes on from where it was
Switch ==
    /\ switches < MaxSwitches
    /\ switches' = switches + 1
    /\ other' = Context
    /\ pc' = other.pc
    /\ pg_handler' = other.pg_handler
    /\ milvus_handler' = other.milvus_handler
    /\ all_pages' = other.all_pages
    /\ idx' = other.idx
    /\ db_modified_time' = other.db_modified_time
    /\ chunks' = other.chunks
    /\ process_stats' = other.process_stats
    /\ deleted_page_ids' = other.deleted_page_ids
    /\ cur_deleted' = other.cur_deleted
    /\ result' = other.result
    /\ meta0' = other.meta0
    /\ vec0' = other.vec0
    /\ log0' = other.log0
    /\ outputs' = other.outputs
    /\ prev_pages' = other.prev_pages
    /\ interrupted' = other.interrupted
    /\ auth0' = other.auth0
    /\ token_pg' = other.token_pg
    /\ tpc' = other.tpc
    /\ attempt' = other.attempt
    /\ response' = other.response
    /\ access_token' = other.access_token
    /\ http_response' = other.http_response
    /\ UNCHANGED <<tableVars, cpVars, remote, storeVars, auth, runs>>

\* Two run_pipeline calls at once over the same document source, none failing
\* and every request of the fetch answered
NextConcurrent ==
    \/ NextScenario
    \/ TriggerRespond
    \/ Switch

InitConcurrent ==
    /\ InitClean
    /\ auth = ValidAuth

SpecConcurrent == InitConcurrent /\ [][NextConcurrent]_vars

\* A run_pipeline call that stops inside the page loop, by an exception or
\* with its process, and a second call that fetches every page and does not fail
NextRecover ==
    \/ NextScenario
    \/ runs = 1 /\ pc \in PageLoopSteps /\ Raise
    \/ runs = 1 /\ pc \in PageLoopSteps /\ Crash
    \/ RunAgain

\* The first call finds the stores as a run that returned left them
SpecRecover == InitConcurrent /\ [][NextRecover]_vars

\* One get_access_token call with every answer the identity provider can
\* give, no answer included; a thread that can take a step takes it
NextToken ==
    \/ StartRun
    \/ InitHandlers
    \/ TokenConnect
    \/ TokenConnectRaise
    \/ TokenGetAuth
    \/ TokenStoreRaise
    \/ \E r \in TokenResponses : TokenPost(r)
    \/ TokenPostBlocks
    \/ TokenExcept
    \/ TokenUpdate
    \/ GetAccessToken
    \/ GetAccessTokenRaise
    \/ Finally

SpecToken == InitClean /\ [][NextToken]_vars /\ WF_vars(NextToken)

SpecTable == InitTable /\ [][NextTable]_vars

\* ============================================================ properties
VecOfPage(bag, page_id) == [c \in ChunksOf(bag, page_id) |-> bag[c]]

FetchedPage(page_id) ==
    all_pages[CHOOSE k \in 1..Len(all_pages) : all_pages[k].id = page_id]

NewEvents == {sync_log[k] : k \in (log0 + 1)..Len(sync_log)}

Returned == result.kind = "report"

\* The branch the pre-run stores fix for a fetched page
Category0(page) ==
    IF page.id \notin DOMAIN meta0 THEN "new"
    ELSE IF OnenoteModifiedTime(page) > meta0[page.id].last_modified_time THEN "updated"
    ELSE "skipped"

RECURSIVE TitlesOf(_, _)
TitlesOf(cat, k) ==
    IF k = 0 THEN <<>>
    ELSE TitlesOf(cat, k - 1) \o
         (IF Category0(all_pages[k]) = cat THEN <<all_pages[k].title>> ELSE <<>>)

PageSteps == {"delete", "process", "insert"}

\* C1: when a run returned a report over a non-empty page list and run_pipeline
\* is called again and fetches the identical list, the second report has no
\* new, updated or deleted page and counts every fetched page as skipped.
C1_Idempotence ==
    (Returned /\ runs = 2 /\ prev_pages # <<>> /\ all_pages = prev_pages)
        => /\ result.new_pages_count = 0
           /\ result.new_pages_titles = <<>>
           /\ result.updated_pages_count = 0
           /\ result.updated_pages_titles = <<>>
           /\ result.deleted_pages_count = 0
           /\ result.deleted_pages_ids = <<>>
           /\ result.skipped_pages_count = Len(all_pages)

\* The second of two runs over the same list has returned, and the first one
\* created a page and updated another.
C1_Witness ==
    /\ Returned /\ runs = 2 /\ pc = "done"
    /\ prev_pages # <<>> /\ all_pages = prev_pages
    /\ {"CREATED", "UPDATED"} \subseteq {sync_log[k][2] : k \in 1..Len(sync_log)}

\* C2: after a run that returned a report, the chunks stored under the id of
\* every page the run reprocessed are exactly what process_page returned for
\* the fetched content of the page, one copy of each, and all of them are of
\* the fetched version: no chunk of an earlier version remains.
C2_ReprocessedChunks ==
    Returned =>
        \A p \in DOMAIN outputs :
            /\ VecOfPage(vec, p) = BagOfSeq(outputs[p])
            /\ \E ok \in EmbedOutcomes(FetchedPage(p)) :
                  outputs[p] = ProcessPage(FetchedPage(p), ok)
            /\ \A c \in ChunksOf(vec, p) :
                  c.text_content[2] = OnenoteModifiedTime(FetchedPage(p))

\* A run returned after replacing the chunks a page had by chunks of its new version.
C2_Witness ==
    /\ Returned
    /\ \E p \in DOMAIN outputs :
          /\ outputs[p] # <<>>
          /\ ChunksOf(vec0, p) # {}
          /\ ChunksOf(vec0, p) \cap ChunksOf(vec, p) = {}

\* C3 as claimed: after a run that returned a report, every id that had a
\* metadata row before the run and is not in the fetched list, the empty list
\* included, has no row, no chunk, and is in deleted_pages_ids.
C3_DeletionDetection_AsClaimed ==
    Returned =>
        \A p \in DOMAIN meta0 \ RemotePageIds :
            /\ p \notin DOMAIN meta
            /\ ChunksOf(vec, p) = {}
            /\ p \in SeqToSet(result.deleted_pages_ids)

\* C3 amended: the same, for a run whose fetched list is not empty.
C3_DeletionDetection ==
    (Returned /\ all_pages # <<>>) =>
        \A p \in DOMAIN meta0 \ RemotePageIds :
            /\ p \notin DOMAIN meta
            /\ ChunksOf(vec, p) = {}
            /\ p \in SeqToSet(result.deleted_pages_ids)

\* A run over a non-empty list returned, and a page that had a row and chunks
\* was not in the list.
C3_Witness ==
    /\ Returned /\ all_pages # <<>>
    /\ \E p \in DOMAIN meta0 \ RemotePageIds : ChunksOf(vec0, p) # {}

\* C4: a fetched page whose timestamp equals the stored one is never
\* reprocessed (no process_page call, no sync event, its row and chunks as
\* before the run) and is listed neither as new nor as updated; a page listed
\* as updated has a fetched timestamp strictly greater than the stored one.
C4_TieBreak ==
    \A k \in 1..Len(all_pages) :
        LET page == all_pages[k]
            p == page.id
            r == OnenoteModifiedTime(page)
        IN  p \in DOMAIN meta0 =>
              /\ (r = meta0[p].last_modified_time) =>
                    /\ p \notin DOMAIN outputs
                    /\ \A e \in NewEvents : e[1] # p
                    /\ p \in DOMAIN meta /\ meta[p] = meta0[p]
                    /\ VecOfPage(vec, p) = VecOfPage(vec0, p)
                    /\ page.title \notin SeqToSet(process_stats.new.titles)
                    /\ page.title \notin SeqToSet(process_stats.updated.titles)
                    /\ Returned => result.skipped_pages_count >= 1
              /\ (page.title \in SeqToSet(process_stats.updated.titles)) =>
                    r > meta0[p].last_modified_time

\* A run returned that skipped a page with equal timestamps and updated another.
C4_Witness ==
    /\ Returned
    /\ result.updated_pages_count >= 1
    /\ \E k \in 1..Len(all_pages) :
          /\ all_pages[k].id \in DOMAIN meta0
          /\ OnenoteModifiedTime(all_pages[k]) = meta0[all_pages[k].id].last_modified_time

\* C5: the report of a run over a non-empty list counts every fetched page
\* under the category its pre-run row fixes (no row: new; fetched timestamp
\* greater than stored: updated; otherwise skipped), with the titles in fetch
\* order, and lists as deleted exactly the ids stored but not fetched.
C5_Classification ==
    (Returned /\ all_pages # <<>>) =>
        /\ result.new_pages_titles = TitlesOf("new", Len(all_pages))
        /\ result.new_pages_count = Len(TitlesOf("new", Len(all_pages)))
        /\ result.updated_pages_titles = TitlesOf("updated", Len(all_pages))
        /\ result.updated_pages_count = Len(TitlesOf("updated", Len(all_pages)))
        /\ result.skipped_pages_count = Len(TitlesOf("skipped", Len(all_pages)))
        /\ SeqToSet(result.deleted_pages_ids) = DOMAIN meta0 \ RemotePageIds
        /\ Len(result.deleted_pages_ids) = Cardinality(DOMAIN meta0 \ RemotePageIds)
        /\ result.deleted_pages_count = Cardinality(DOMAIN meta0 \ RemotePageIds)

\* The scenario: A new, B newer than stored, C equal to stored, D stored only.
C5_Witness ==
    /\ Returned /\ pc = "done"
    /\ \E a, b, c, d \in ScenarioPages :
          /\ result.new_pages_count = 1 /\ result.new_pages_titles = <<Title(a)>>
          /\ result.updated_pages_count = 1 /\ result.updated_pages_titles = <<Title(b)>>
          /\ result.skipped_pages_count = 1
          /\ c \in RemotePageIds /\ c \in DOMAIN meta0
          /\ meta0[c].last_modified_time = OnenoteModifiedTime(FetchedPage(c))
          /\ result.deleted_pages_count = 1 /\ result.deleted_pages_ids = <<d>>
          /\ d \in DOMAIN meta0

\* C6: when the fetch yields an empty list, run_pipeline returns a report with
\* status "success", a message, every count zero and every list empty; no
\* per-page or sweep step runs and no exception ends such a run.
C6_EmptyFetch ==
    /\ (Returned /\ all_pages = <<>>) =>
          /\ result.status = "success"
          /\ result.message # NoMessage
          /\ result.new_pages_count = 0 /\ result.new_pages_titles = <<>>
          /\ result.updated_pages_count = 0 /\ result.updated_pages_titles = <<>>
          /\ result.deleted_pages_count = 0 /\ result.deleted_pages_ids = <<>>
          /\ result.skipped_pages_count = 0
    /\ (result.kind = "raised" /\ all_pages = <<>>) => result.at \in {"init", "token", "fetch"}
    /\ (pc = "finally" /\ all_pages = <<>> /\ result.kind # "raised") => Returned

\* A run returned the empty-fetch report although the source has pages and the
\* metadata store has rows.
C6_Witness ==
    /\ Returned /\ all_pages = <<>> /\ pc = "done"
    /\ RemoteIds # {}
    /\ DOMAIN meta # {}

\* C7 as claimed: no run ends with the exception of a page's vector delete,
\* process_page or vector insert: such a failure is caught and the run goes on.
C7_PageFailureDoesNotAbort ==
    result.kind = "raised" => result.at \notin PageSteps

\* C8 as claimed: when a page's vector delete, process_page or vector insert
\* raised, the page's chunks and its metadata row are what they were before
\* the run.
C8_FailedPageUnchanged ==
    (result.kind = "raised" /\ result.at \in PageSteps) =>
        /\ VecOfPage(vec, CurPage.id) = VecOfPage(vec0, CurPage.id)
        /\ (CurPage.id \in DOMAIN meta) = (CurPage.id \in DOMAIN meta0)
        /\ CurPage.id \in DOMAIN meta => meta[CurPage.id] = meta0[CurPage.id]

\* C9 as claimed: after a run that returned a report, a fetched page has a
\* metadata row if and only if it had one before the run or the run inserted
\* chunks for it; no row is written for a page whose pipeline gave no chunk.
C9_RowIffEmbedded ==
    Returned =>
        \A p \in RemotePageIds :
            (p \in DOMAIN meta) <=>
                (p \in DOMAIN meta0 \/ (p \in DOMAIN outputs /\ outputs[p] # <<>>))

\* C10: within a page's processing the old vectors are deleted before the new
\* ones are inserted and the metadata row is written only after the insert;
\* so in every state, a stop of the run between two steps included, the
\* timestamp of a page's row is not newer than the version of any chunk stored
\* for the page.
C10_StepOrder ==
    /\ pc \in {"process", "insert"} => ChunksOf(vec, CurPage.id) = {}
    /\ pc \in {"delete", "process", "insert", "upsert"} =>
          /\ (CurPage.id \in DOMAIN meta) = (CurPage.id \in DOMAIN meta0)
          /\ CurPage.id \in DOMAIN meta => meta[CurPage.id] = meta0[CurPage.id]
    /\ pc = "upsert" => VecOfPage(vec, CurPage.id) = BagOfSeq(chunks)
    /\ \A p \in DOMAIN meta : \A c \in ChunksOf(vec, p) :
          meta[p].last_modified_time <= c.text_content[2]

\* The run stopped between the insert of an updated page's chunks and the
\* upsert: the new chunks are stored and the row still has the old timestamp.
C10_Witness ==
    /\ result.kind = "crashed" /\ result.at = "upsert"
    /\ chunks # <<>>
    /\ CurPage.id \in DOMAIN meta
    /\ meta[CurPage.id].last_modified_time < OnenoteModifiedTime(CurPage)
    /\ VecOfPage(vec, CurPage.id) = BagOfSeq(chunks)

\* ------------------------------------------------------------------
\* C11: when run_pipeline has returned or raised, none of the connections
\* opened during the run is still open: not the run's PostgresHandler, not
\* its MilvusHandler, not the PostgresHandler of get_access_token.
C11_GuaranteedRelease ==
    (pc = "done" /\ result.kind \in {"report", "raised"}) =>
        /\ pg_handler # "open"
        /\ milvus_handler # "open"
        /\ token_pg # "open"

\* A run that raised in the middle of a page, after all three were opened
C11_Witness ==
    /\ pc = "done"
    /\ result = Raised("insert")
    /\ pg_handler = "closed"
    /\ milvus_handler = "closed"
    /\ token_pg = "closed"

\* ------------------------------------------------------------------
\* C12: when get_access_token raises, run_pipeline raises too: it returns no
\* report, has fetched no page and has written no metadata row, chunk or
\* sync event; and run_pipeline never goes past line 30 without a token.
C12_CredentialFailureFatal ==
    /\ result = Raised("token") =>
          /\ pc \in {"finally", "done"}
          /\ all_pages = <<>>
          /\ meta = meta0 /\ vec = vec0 /\ Len(sync_log) = log0
    /\ (pc \notin {"idle", "init", "token", "finally", "done"}) => access_token # NoToken

\* The token request failed three times while the stores and the source held pages
C12_Witness ==
    /\ pc = "done"
    /\ result = Raised("token")
    /\ auth0 = ValidAuth
    /\ DOMAIN meta # {}
    /\ RemoteIds # {}

\* ------------------------------------------------------------------
\* C13: after a 4xx answer to a token request, get_access_token sends no
\* further token request.
C13_StopsOnClientError ==
    ~ (tpc = "post" /\ 400 <= response.status_code /\ response.status_code < 500)

\* ------------------------------------------------------------------
\* C20: when the authorizations table has no row for the principal, or the row
\* has no refresh token, get_access_token sends no token request, leaves the
\* table as it is, and the run does not get past it.
C20_TokenPrecondition ==
    (auth0 = NoAuth \/ \A row \in auth0 : row.refresh_token = NoToken) =>
        /\ tpc \notin {"post", "except", "update", "return", "break"}
        /\ auth = auth0
        /\ access_token = NoToken
        /\ pc \in {"idle", "init", "token", "finally", "done"}
        /\ result.kind # "report"

\* get_access_token read a row without refresh token and raised
C20_Witness ==
    /\ auth0 # NoAuth
    /\ \A row \in auth0 : row.refresh_token = NoToken
    /\ token_pg = "closed"
    /\ result = Raised("token")

\* ------------------------------------------------------------------
\* C14: what the fetch gives run_pipeline is the complete remote page set or
\* the empty list, and the fetch never raises.
C14_FetchAllOrNothing ==
    /\ {all_pages[k].id : k \in 1..Len(all_pages)} \in {{}, RemoteIds}
    /\ result # Raised("fetch")

\* ------------------------------------------------------------------
\* C15: for a table with at least one row, _table_to_markdown returns: when the
\* first row has no <th>, a header line `Feature | Details` if that row has
\* exactly two <td> cells and `Column 1 .. Column N` if it has N # 2 of them,
\* a separator line of N `---` cells, and then one line for every row of the
\* table, the first included, in order; when the first row has a <th>, that
\* row's cells as the header line, a separator line with as many `---` cells,
\* and one line for every later row, the first row not among them.
C15_HeaderSynthesis ==
    (tbl_pc = "returned" /\ table_tag # <<>>) =>
        LET first == table_tag[1]
            N == Cardinality({c \in 1..Len(first) : first[c].tag = "td"})
            line(r) == MarkdownRow([c \in 1..Len(table_tag[r]) |->
                                       RStrip(LStrip(table_tag[r][c].text))])
            dashes(n) == MarkdownRow([c \in 1..n |-> <<"---">>])
        IN  IF \A c \in 1..Len(first) : first[c].tag # "th"
            THEN /\ Len(markdown_table) = 2 + Len(table_tag)
                 /\ markdown_table[1] =
                        IF N = 2 THEN <<"| ", "Feature", " | ", "Details", " |">>
                        ELSE MarkdownRow([i \in 1..N |-> <<"Column ", Digits[i]>>])
                 /\ markdown_table[2] = dashes(N)
                 /\ \A r \in 1..Len(table_tag) : markdown_table[2 + r] = line(r)
            ELSE /\ Len(markdown_table) = 1 + Len(table_tag)
                 /\ markdown_table[1] = line(1)
                 /\ markdown_table[2] = dashes(Len(first))
                 /\ \A r \in 2..Len(table_tag) : markdown_table[1 + r] = line(r)

\* A table of two rows of two <td> cells was rendered with the synthesized header
C15_Witness ==
    /\ tbl_pc = "returned"
    /\ Len(table_tag) = 2
    /\ \A r \in 1..2 : Len(table_tag[r]) = 2 /\ \A c \in 1..2 : table_tag[r][c].tag = "td"
    /\ markdown_table[1] = <<"| ", "Feature", " | ", "Details", " |">>
    /\ markdown_table[3] = <<"| ", "r", "1", "c", "1", " | ", "r", "1", "c", "2", " |">>

\* ------------------------------------------------------------------
\* C16: an image of the resource endpoint whose download, storage or
\* description failed is replaced in the page by a marker text that is not
\* empty, so that the failure shows in the extracted text.
C16_ImageFailureMarker ==
    \A f \in failed : f.part = "img" =>
        /\ soup[f.k].tag = "text"
        /\ soup[f.k].string # EmptyStr

\* ------------------------------------------------------------------
\* C17: a table with rows whose summary call failed is replaced in the page by
\* a text that still holds the markdown table.
C17_TableSummaryFailure ==
    \A f \in failed : f.part = "table" =>
        /\ soup[f.k].tag = "text"
        /\ soup[f.k].string.kind = "TABLE_INFO"
        /\ soup[f.k].string.markdown_table = TableToMarkdown(page_data.html_content[f.k].rows)

\* ------------------------------------------------------------------
\* C18: what process_page returns for a page with id and content is, in the
\* order of the text chunks, one row for every chunk whose embedding call
\* succeeded, with the chunk's text, the vector of that text and the page's id,
\* title and section name, and no row for a chunk whose call failed.
C18_EmbeddedChunksOnly ==
    (cp_pc = "returned" /\ page_data.id # NoId /\ page_data.html_content # <<>>) =>
        LET embedded == {k \in 1..Len(text_chunks) : Failure("chunk", k) \notin failed}
            pos(j) == CHOOSE k \in embedded : Cardinality({i \in embedded : i < k}) = j - 1
        IN  /\ Len(milvus_chunks) = Cardinality(embedded)
            /\ \A j \in 1..Len(milvus_chunks) :
                  milvus_chunks[j] =
                      [vector |-> Embedding(text_chunks[pos(j)]),
                       page_id |-> page_data.id,
                       text_content |-> text_chunks[pos(j)],
                       page_title |-> page_data.title,
                       section_name |-> page_data.sectionDisplayName]

\* Of three chunks the second failed to embed: the first and the third are returned
C18_Witness ==
    /\ cp_pc = "returned"
    /\ Len(text_chunks) = 3
    /\ text_chunks[1] # text_chunks[3]
    /\ failed = {Failure("chunk", 2)}
    /\ Len(milvus_chunks) = 2
    /\ milvus_chunks[2].text_content = text_chunks[3]

\* ------------------------------------------------------------------
\* C19: called with a page without id or without content, process_page returns
\* the empty list and makes no summary, image or embedding call.
C19_MissingIdOrContent ==
    (page_data.id = NoId \/ page_data.html_content = <<>>) =>
        /\ cp_pc \in {"idle", "call", "returned"}
        /\ calls = {}
        /\ milvus_chunks = <<>>

\* A page without id whose content has a table, an image and a paragraph
C19_Witness ==
    /\ cp_pc = "returned"
    /\ page_data.id = NoId
    /\ \A tag \in {"table", "img", "text"} :
          \E k \in 1..Len(page_data.html_content) : page_data.html_content[k].tag = tag

\* ------------------------------------------------------------------
\* C21: get_access_token returns only when the renewed access token, refresh
\* token and expiry are in the principal's row, and the token run_pipeline got
\* from it is the stored access token.
C21_TokenPersistedBeforeUse ==
    (tpc = "return" \/ access_token # NoToken) =>
        LET T == IF tpc = "return" THEN response.access_token ELSE access_token
        IN  /\ T # NoToken
            /\ auth = {[access_token |-> T, refresh_token |-> NewTokens.refresh_token,
                        token_expires_at |-> ExpiresAt(NewTokens.expires_in)]}

\* A token request succeeded and its token was handed to run_pipeline
C21_Witness ==
    /\ pc = "fetch"
    /\ access_token = "access1"
    /\ auth0 = ValidAuth
    /\ auth # auth0

\* ------------------------------------------------------------------
\* C23: a fetched page that the stored timestamp makes SKIPPED keeps, all
\* through the run, the metadata row and the chunks it had when the run
\* started, gets no sync event, and process_page is not called for it.
C23_SkippedNoWrite ==
    \A k \in 1..Len(all_pages) :
        Category0(all_pages[k]) = "skipped" =>
            LET p == all_pages[k].id
            IN  /\ p \in DOMAIN meta /\ meta[p] = meta0[p]
                /\ VecOfPage(vec, p) = VecOfPage(vec0, p)
                /\ \A ev \in NewEvents : ev[1] # p
                /\ p \notin DOMAIN outputs

\* A run that returned its report skipped a page with stored chunks and
\* created or updated another one
C23_Witness ==
    /\ Returned
    /\ pc = "done"
    /\ result.skipped_pages_count = 1
    /\ result.new_pages_count + result.updated_pages_count = 1
    /\ \E k \in 1..Len(all_pages) :
          /\ Category0(all_pages[k]) = "skipped"
          /\ ChunksOf(vec0, all_pages[k].id) # {}
\* C22: whatever makes run_pipeline raise, the endpoint answers with status 500
\* and one fixed detail: two requests failing for different reasons get the
\* same response, and the cause is not in it.
C22_GenericServerError ==
    (http_response # NoHttpResponse /\ result.kind = "raised") =>
        http_response = InternalServerError

\* A request whose run failed while it inserted a page's vectors was answered
C22_Witness ==
    /\ http_response # NoHttpResponse
    /\ result.kind = "raised" /\ result.at = "insert"

\* C24: when two run_pipeline calls run at once over the same document
\* source and both have returned, the vector store holds every chunk once:
\* for each fetched page exactly the chunks one of the two calls produced.
C24_NoDuplicatedChunks ==
    (/\ pc = "done" /\ other.pc = "done"
     /\ result.kind = "report" /\ other.result.kind = "report") =>
        \A k \in 1..Len(all_pages) :
            LET p == all_pages[k].id
            IN  \/ /\ p \in DOMAIN outputs
                   /\ VecOfPage(vec, p) = BagOfSeq(outputs[p])
                \/ /\ p \in DOMAIN other.outputs
                   /\ VecOfPage(vec, p) = BagOfSeq(other.outputs[p])
                \/ /\ p \notin DOMAIN outputs /\ p \notin DOMAIN other.outputs
                   /\ VecOfPage(vec, p) = VecOfPage(vec0, p)

\* C27: every CREATED or UPDATED event a run appended names a page whose
\* chunks the run has inserted and whose metadata it has upserted, and every
\* DELETED event a page whose vectors and metadata row are gone.
C27_EventAfterCompletion ==
    \A ev \in NewEvents :
        LET p == ev[1]
        IN  IF ev[2] = "DELETED"
            THEN p \notin DOMAIN meta /\ ChunksOf(vec, p) = {}
            ELSE /\ p \in DOMAIN outputs
                 /\ VecOfPage(vec, p) = BagOfSeq(outputs[p])
                 /\ p \in DOMAIN meta
                 /\ meta[p].last_modified_time = OnenoteModifiedTime(FetchedPage(p))

\* C28: a metadata row disappears only in the sweep's delete_page_metadata
\* step, and only for an id that was stored and is not among the ids the run
\* fetched: no other step removes a row, and a fetched page keeps its row.
C28_OnlySweepRemoves ==
    [][\A p \in DOMAIN meta \ DOMAIN meta' :
          /\ pc = "sweep_meta"
          /\ p = cur_deleted
          /\ p \in GetAllPageIds \ RemotePageIds]_vars

\* A run returned after its sweep removed a row and left a fetched page's row
C28_Witness ==
    /\ pc = "done" /\ Returned
    /\ DOMAIN meta0 \ DOMAIN meta # {}
    /\ RemotePageIds \cap DOMAIN meta0 \cap DOMAIN meta # {}

\* C29: when a run fetched at least one page and returned its report, every
\* page that exists in the document source and had a metadata row but is
\* missing from the fetched list (a request for it failed) has been swept:
\* no chunk, no metadata row, and its id in deleted_pages_ids.
C29_LostPageSwept ==
    (Returned /\ all_pages # <<>>) =>
        \A p \in (RemoteIds \cap DOMAIN meta0) \ RemotePageIds :
            /\ p \notin DOMAIN meta
            /\ ChunksOf(vec, p) = {}
            /\ p \in SeqToSet(result.deleted_pages_ids)

\* A run returned that fetched one page and lost another, which exists in the
\* source and had a metadata row and chunks
C29_Witness ==
    /\ pc = "done" /\ Returned /\ all_pages # <<>>
    /\ \E p \in (RemoteIds \cap DOMAIN meta0) \ RemotePageIds : ChunksOf(vec0, p) # {}

\* C25: when the previous run stopped between a page's insert_chunks and its
\* upsert_page_metadata, and the next run fetched every page and returned its
\* report, that run did not skip the page and the vector store holds for it
\* exactly the chunks that run produced, each once.
C25_RecoversAfterInsert ==
    (runs = 2 /\ Returned /\ interrupted.at = "upsert") =>
        LET p == interrupted.page
        IN  /\ p \in RemotePageIds
            /\ Category0(FetchedPage(p)) # "skipped"
            /\ p \in DOMAIN outputs
            /\ VecOfPage(vec, p) = BagOfSeq(outputs[p])

\* The second run returned; the first had stopped before the upsert of a page
\* whose new chunks it had inserted, and the second produced chunks for it
C25_Witness ==
    /\ runs = 2 /\ Returned /\ pc = "done" /\ interrupted.at = "upsert"
    /\ ChunksOf(vec0, interrupted.page) # {}
    /\ \A c \in ChunksOf(vec0, interrupted.page) :
           c.text_content[2] = remote[interrupted.page]
    /\ outputs[interrupted.page] # <<>>

\* C26: when the previous run stopped inside a page's new or updated branch
\* before its metadata was upserted, the next run over the same pages does not
\* classify the page as skipped: it logs CREATED or UPDATED for it and
\* processes it again.
C26_FailedPageRetried ==
    (runs = 2 /\ interrupted.at \in {"log", "delete", "process", "insert", "upsert"}
     /\ all_pages # <<>>) =>
        LET p == interrupted.page
        IN  /\ p \in RemotePageIds
            /\ Category0(FetchedPage(p)) # "skipped"
            /\ Returned =>
                  /\ p \in DOMAIN outputs
                  /\ \E ev \in NewEvents : ev[1] = p /\ ev[2] \in {"CREATED", "UPDATED"}

\* The second run returned; the first had stopped when process_page raised
\* for a page that had a metadata row
C26_Witness ==
    /\ runs = 2 /\ Returned /\ pc = "done" /\ interrupted.at = "process"
    /\ interrupted.page \in DOMAIN meta0
    /\ interrupted.page \in DOMAIN outputs

\* C30: every get_access_token call that has started comes to an end, by
\* returning a token or by raising.
C30_EveryCallTerminates == (pc = "token") ~> (pc # "token")

\* C32: once the fetch has yielded an empty list, the run changes no page
\* data: metadata rows, chunks and sync log stay as they were when the run
\* started, no page is processed and no sweep step runs, whatever rows the
\* metadata store holds.
C32_EmptyFetchFrame ==
    (all_pages = <<>> /\ pc \in {"finally", "done"}) =>
        /\ meta = meta0
        /\ vec = vec0
        /\ Len(sync_log) = log0
        /\ DOMAIN outputs = {}
        /\ deleted_page_ids = {} /\ process_stats.deleted.count = 0

\* A run returned after an empty fetch while the metadata store held rows and
\* the vector store chunks
C32_Witness ==
    /\ Returned /\ all_pages = <<>> /\ pc = "done"
    /\ DOMAIN meta0 # {}
    /\ vec0 # EmptyBag

\* C34: in every report run_pipeline returns, each count is the length of its
\* list, the new, updated and skipped counts add up to the length of the
\* fetched list, and no id listed as deleted is the id of a fetched page.
C34_ReportConsistency ==
    Returned =>
        /\ result.new_pages_count = Len(result.new_pages_titles)
        /\ result.updated_pages_count = Len(result.updated_pages_titles)
        /\ result.deleted_pages_count = Len(result.deleted_pages_ids)
        /\ result.new_pages_count + result.updated_pages_count
              + result.skipped_pages_count = Len(all_pages)
        /\ SeqToSet(result.deleted_pages_ids) \cap RemotePageIds = {}

\* A run returned a report with one updated page and one deleted id
C34_Witness ==
    /\ Returned /\ pc = "done"
    /\ result.updated_pages_count = 1
    /\ result.deleted_pages_count = 1

\* C33: after a run over a non-empty fetched list returned its report, the
\* metadata store has a row for exactly the fetched page ids, and each row's
\* timestamp is not older than the fetched page's.
C33_StoreConvergence ==
    (Returned /\ all_pages # <<>>) =>
        /\ DOMAIN meta = RemotePageIds
        /\ \A k \in 1..Len(all_pages) :
              meta[all_pages[k].id].last_modified_time >= OnenoteModifiedTime(all_pages[k])

\* A run returned that swept a stored id and skipped a fetched page whose
\* stored timestamp is later than the fetched one
C33_Witness ==
    /\ Returned /\ pc = "done" /\ all_pages # <<>>
    /\ DOMAIN meta0 \ RemotePageIds # {}
    /\ \E k \in 1..Len(all_pages) :
          /\ all_pages[k].id \in DOMAIN meta0
          /\ meta[all_pages[k].id].last_modified_time > OnenoteModifiedTime(all_pages[k])

\* C31: every image whose bytes were downloaded is looked up in the bucket
\* under the key of its bytes; unless a later call for it failed, the bucket
\* then holds an object with that key and the text put in the image's place
\* names the location of that key; and no key is uploaded twice, however
\* often the same bytes are processed.
C31_ContentAddressedImages ==
    /\ downloaded # {} => "s3" \in calls
    /\ \A k \in downloaded :
          LET s3_object_name ==
                  S3ObjectName(ImageData(ReplaceSiteCollections(page_data.html_content[k].src)))
          IN  Failure("img", k) \notin failed =>
                 /\ s3_object_name \in s3_objects
                 /\ soup[k].string = ImageInfo(HttpUri(s3_object_name), <<"description">>)
    /\ \A i, j \in 1..Len(uploads) : uploads[i] = uploads[j] => i = j

====
